---- MODULE Spec2Model ----
(***************************************************************************)
(* The asynchronous successive halving searcher (ASHA) of                  *)
(* master/pkg/searcher/asha.go: one bracket, its rung ladder, and the      *)
(* operations it returns to the orchestrator for every event.              *)
(*                                                                         *)
(* Rung indices are those of the code (0 .. NumRungs-1); the rung with     *)
(* index k is rungs[k+1], and the entry metrics[i] of the code is          *)
(* metrics[i+1], because TLA+ sequences start at 1.                        *)
(***************************************************************************)
EXTENDS Integers, Sequences, FiniteSets, TLC

\* ------------------------------------------------------------------ bounds
\* MaxTrials of a configuration ranges over 1..MaxTrialsBound.
MaxTrialsBound == 3
\* NumRungs ranges over 1..MaxRungs.
MaxRungs == 3
\* Divisor ranges over 2..MaxDivisor.
MaxDivisor == 3
\* MaxConcurrentTrials ranges over 0..MaxConcurrentBound (0: not configured).
MaxConcurrentBound == 2
\* TargetTrialSteps (max_length) ranges over 1..MaxLengthBound in SpecLadder.
MaxLengthBound == 9
\* Events for ids the searcher never created: -MaxUnknown..-1, each delivered once.
MaxUnknown == 1

\* math.MaxFloat64: larger than every metric a validation reports.
ashaExitedMetricValue == 1000000

\* A float64 metric is an integer here, or NaN: the one value that is not a number.
NaN == -1000001

VARIABLES
    config,           \* model.AsyncHalvingConfig
    rungs,            \* []*rung
    trialRungs,       \* map[RequestID]int
    earlyExitTrials,  \* map[RequestID]bool, as the set of ids mapped to true
    trialsCompleted,  \* int
    started,          \* initialOperations has been called
    pending,          \* orchestrator: trials with an emitted, unanswered Validate
    exited,           \* orchestrator: trials it reported as exited early
    lastCall,         \* the last public call: [kind, id, hasMetric]
    lastOps,          \* the batch of operations the last call returned
    lastErr,          \* the error the last call returned ("" for nil)
    closes,           \* per trial, the number of Close operations returned so far
    unknownSent,      \* unknown ids already used in an event
    nanReported       \* orchestrator: trials whose validation reported NaN

vars == <<config, rungs, trialRungs, earlyExitTrials, trialsCompleted, started,
          pending, exited, lastCall, lastOps, lastErr, closes, unknownSent,
          nanReported>>

\* ----------------------------------------------------------------- helpers
min(a, b) == IF a < b THEN a ELSE b

max(a, b) == IF a > b THEN a ELSE b

\* math.Pow on an integral base and a non-negative integral exponent.
RECURSIVE Pow(_, _)
Pow(b, e) == IF e = 0 THEN 1 ELSE b * Pow(b, e - 1)

\* a > b on float64: false whenever an operand is NaN.
floatGreater(a, b) == a # NaN /\ b # NaN /\ a > b

\* a <= b on float64: false whenever an operand is NaN.
floatLessEq(a, b) == a # NaN /\ b # NaN /\ a <= b

\* a * (-1) on float64: NaN stays NaN.
floatNegate(a) == IF a = NaN THEN NaN ELSE a * (-1)

\* A Go map read: the zero value for a missing key.
MapGet(m, k) == IF k \in DOMAIN m THEN m[k] ELSE 0

\* A Go map write.
MapPut(m, k, v) == [x \in DOMAIN m \cup {k} |-> IF x = k THEN v ELSE m[x]]

Divisor == config.Divisor

NumRungs == config.NumRungs

maxTrials == config.MaxTrials

\* ---------------------------------------------------------------- operations
NewCreate(id) == [kind |-> "Create", id |-> id, from |-> 0, to |-> 0]

NewTrain(id, from, to) == [kind |-> "Train", id |-> id, from |-> from, to |-> to]

NewValidate(id, at) == [kind |-> "Validate", id |-> id, from |-> at, to |-> at]

NewClose(id) == [kind |-> "Close", id |-> id, from |-> 0, to |-> 0]

trainAndValidate(id, prev, next) == <<NewTrain(id, prev, next), NewValidate(id, next)>>

\* The id a NewCreate draws: fresh, here the next unused positive number.
FreshID(tr) == Cardinality({t \in DOMAIN tr : t > 0}) + 1

\* --------------------------------------------------------------- constructor
\* A faulty variant: the rung length without its floor of one step.
stepsNeededAtUnclamped(cfg, id) ==
    cfg.TargetTrialSteps \div Pow(cfg.Divisor, cfg.NumRungs - id - 1)

stepsNeededAt(cfg, id) ==
    LET downsamplingRate == Pow(cfg.Divisor, cfg.NumRungs - id - 1)
    IN  max(cfg.TargetTrialSteps \div downsamplingRate, 1)

newAsyncHalvingSearch(cfg) ==
    [rungs |-> [k \in 1..cfg.NumRungs |->
                   [stepsNeeded |-> stepsNeededAt(cfg, k - 1),
                    outstandingTrials |-> 0,
                    metrics |-> << >>]],
     trialRungs |-> << >>,
     earlyExitTrials |-> {},
     trialsCompleted |-> 0]

\* ----------------------------------------------------------------- the rung
\* sort.Search(n, f): the smallest index in [0, n) at which f holds, by bisection.
RECURSIVE sortSearch(_, _, _, _)
sortSearch(i, j, metrics, metric) ==
    IF i < j
    THEN LET h == (i + j) \div 2
         IN  IF ~floatGreater(metrics[h + 1].metric, metric)
             THEN sortSearch(h + 1, j, metrics, metric)
             ELSE sortSearch(i, h, metrics, metric)
    ELSE i

\* A faulty variant: the inserted trial is also promoted at the slot numPromote.
promoteNowAtInclusive(insertIndex, numPromote) == insertIndex <= numPromote

\* The slot below which the inserted trial itself is promoted.
promoteNowAt(insertIndex, numPromote) == insertIndex < numPromote

promotionsAsync(r, requestID, metric, divisor) ==
    LET n == Len(r.metrics)
        oldNumPromote == n \div divisor
        numPromote == (n + 1) \div divisor
        insertIndex == sortSearch(0, n, r.metrics, metric)
        promoteNow == promoteNowAt(insertIndex, numPromote)
        entry == [requestID |-> requestID, metric |-> metric,
                  promoted |-> promoteNow, closed |-> FALSE]
        inserted == SubSeq(r.metrics, 1, insertIndex) \o <<entry>>
                    \o SubSeq(r.metrics, insertIndex + 1, n)
    IN  IF promoteNow
        THEN [rung |-> [r EXCEPT !.metrics = inserted],
              promotions |-> <<requestID>>]
        ELSE IF numPromote # oldNumPromote /\ ~inserted[oldNumPromote + 1].promoted
        THEN [rung |-> [r EXCEPT !.metrics =
                           [inserted EXCEPT ![oldNumPromote + 1].promoted = TRUE]],
              promotions |-> <<inserted[oldNumPromote + 1].requestID>>]
        ELSE [rung |-> [r EXCEPT !.metrics = inserted], promotions |-> << >>]

\* ------------------------------------------------------------- closeOutRungs
\* What closing one unpromoted, unclosed entry appends to the returned operations.
drainCloses(requestID, exitedEarly) ==
    (IF ~exitedEarly THEN <<NewClose(requestID)>> ELSE << >>)
    \o <<NewClose(requestID)>>

\* A faulty variant: the inner loop also closes promoted entries.
toCloseAlsoPromoted(m) == ~m.closed

\* The entries of one rung that the inner loop closes.
toClose(m) == ~m.promoted /\ ~m.closed

\* The inner loop over rung.metrics from entry i on: the operations appended.
RECURSIVE closeOps(_, _, _)
closeOps(metrics, i, early) ==
    IF i > Len(metrics) THEN << >>
    ELSE (IF toClose(metrics[i])
          THEN drainCloses(metrics[i].requestID, metrics[i].requestID \in early)
          ELSE << >>)
         \o closeOps(metrics, i + 1, early)

\* The outer loop from rung k (1-based) on; it breaks at the first rung with
\* outstanding trials.
RECURSIVE closeFrom(_, _)
closeFrom(s, k) ==
    IF k > Len(s.rungs) \/ s.rungs[k].outstandingTrials > 0
    THEN [state |-> s, ops |-> << >>]
    ELSE LET ms == s.rungs[k].metrics
             n == Cardinality({i \in 1..Len(ms) : toClose(ms[i])})
             s1 == [s EXCEPT
                      !.trialsCompleted = @ + n,
                      !.rungs[k].metrics =
                          [i \in 1..Len(ms) |->
                              IF toClose(ms[i]) THEN [ms[i] EXCEPT !.closed = TRUE]
                              ELSE ms[i]]]
             rest == closeFrom(s1, k + 1)
         IN  [state |-> rest.state,
              ops |-> closeOps(ms, 1, s.earlyExitTrials) \o rest.ops]

closeOutRungs(s) == closeFrom(s, 1)

\* ------------------------------------------------------------------- promote
\* A faulty variant: the refill also fires at the cap.
shouldCreateOffByOne(addedTrainWorkload, allTrials, cap) ==
    ~addedTrainWorkload /\ allTrials <= cap

\* A faulty variant: the refill fires whether or not a promotion added a train workload.
shouldCreateIgnoringPromotion(addedTrainWorkload, allTrials, cap) ==
    allTrials < cap

\* A faulty variant: the refill stops one trial short of the cap.
shouldCreateBelowCap(addedTrainWorkload, allTrials, cap) ==
    ~addedTrainWorkload /\ allTrials + 1 < cap

\* The guard of the refill: no train workload was added and the cap is not reached.
shouldCreate(addedTrainWorkload, allTrials, cap) ==
    ~addedTrainWorkload /\ allTrials < cap

\* A faulty variant: rungs are closed out while the bracket still creates trials.
shouldCloseOutAlways(allTrials, cap) == TRUE

\* The guard of the close-out.
shouldCloseOut(allTrials, cap) == allTrials = cap

\* The tail of promote: refill with a new trial, then close out drained rungs.
refillAndClose(s, ops, addedTrainWorkload) ==
    LET allTrials == Cardinality(DOMAIN s.trialRungs)
        create == shouldCreate(addedTrainWorkload, allTrials, maxTrials)
        id == FreshID(s.trialRungs)
        s1 == IF create
              THEN [s EXCEPT !.rungs[1].outstandingTrials = @ + 1,
                             !.trialRungs = MapPut(@, id, 0)]
              ELSE s
        ops1 == IF create
                THEN ops \o <<NewCreate(id)>>
                         \o trainAndValidate(id, 0, s.rungs[1].stepsNeeded)
                ELSE ops
    IN  IF shouldCloseOut(allTrials, maxTrials)
        THEN LET c == closeOutRungs(s1)
             IN  [state |-> c.state, ops |-> ops1 \o c.ops]
        ELSE [state |-> s1, ops |-> ops1]

\* A faulty variant: the top rung closes a trial whether or not it exited early.
topRungOpsAlwaysClose(requestID, exitedEarly) == <<NewClose(requestID)>>

\* The operations of the top-rung branch.
topRungOps(requestID, exitedEarly) ==
    IF ~exitedEarly THEN <<NewClose(requestID)>> ELSE << >>

\* A faulty variant: a promoted trial is trained whether or not it exited early.
trainsPromotedAlways(promotionID, early) == TRUE

\* Whether a promoted trial gets a train workload (it does unless it exited early).
trainsPromoted(promotionID, early) == promotionID \notin early

RECURSIVE promote(_, _, _)
promote(s, requestID, metric) ==
    LET rungIndex == MapGet(s.trialRungs, requestID)
        s1 == [s EXCEPT !.rungs[rungIndex + 1].outstandingTrials = @ - 1]
    IN  IF rungIndex = NumRungs - 1
        THEN refillAndClose([s1 EXCEPT !.trialsCompleted = @ + 1],
                            topRungOps(requestID, requestID \in s.earlyExitTrials),
                            FALSE)
        ELSE LET p == promotionsAsync(s1.rungs[rungIndex + 1], requestID, metric, Divisor)
                 s2 == [s1 EXCEPT !.rungs[rungIndex + 1] = p.rung]
             IN  IF p.promotions = << >>
                 THEN refillAndClose(s2, << >>, FALSE)
                 ELSE LET promotionID == p.promotions[1]
                          s3 == [s2 EXCEPT
                                   !.trialRungs = MapPut(@, promotionID, rungIndex + 1),
                                   !.rungs[rungIndex + 2].outstandingTrials = @ + 1]
                      IN  IF trainsPromoted(promotionID, s.earlyExitTrials)
                          THEN refillAndClose(
                                   s3,
                                   trainAndValidate(promotionID,
                                                    s.rungs[rungIndex + 1].stepsNeeded,
                                                    s.rungs[rungIndex + 2].stepsNeeded),
                                   TRUE)
                          ELSE promote(s3, promotionID, ashaExitedMetricValue)

\* ------------------------------------------------------------ public methods
\* A faulty variant: the configured concurrency is not capped by MaxTrials.
initialConcurrencyUncapped(cfg) ==
    IF cfg.MaxConcurrentTrials > 0
    THEN cfg.MaxConcurrentTrials
    ELSE max(min(Pow(cfg.Divisor, cfg.NumRungs - 1), cfg.MaxTrials), 1)

\* The number of trials initialOperations creates.
initialConcurrency(cfg) ==
    IF cfg.MaxConcurrentTrials > 0
    THEN min(cfg.MaxConcurrentTrials, cfg.MaxTrials)
    ELSE max(min(Pow(cfg.Divisor, cfg.NumRungs - 1), cfg.MaxTrials), 1)

\* The loop of initialOperations, with `left` iterations to go.
RECURSIVE createInitial(_, _, _)
createInitial(s, ops, left) ==
    IF left = 0 THEN [state |-> s, ops |-> ops, err |-> ""]
    ELSE LET id == FreshID(s.trialRungs)
         IN  createInitial(
                 [s EXCEPT !.rungs[1].outstandingTrials = @ + 1,
                           !.trialRungs = MapPut(@, id, 0)],
                 ops \o <<NewCreate(id)>>
                     \o trainAndValidate(id, 0, s.rungs[1].stepsNeeded),
                 left - 1)

initialOperations(s) == createInitial(s, << >>, initialConcurrency(config))

\* ValidationMetrics.Metric: the value stored under `name`, or an error.
Metric(metrics, name) ==
    IF name \in DOMAIN metrics
    THEN [value |-> metrics[name], err |-> ""]
    ELSE [value |-> 0, err |-> "MissingMetric"]

\* A faulty variant: the error of the metric lookup is dropped.
validationCompletedIgnoringErr(s, requestID, metrics) ==
    LET m == Metric(metrics, config.Metric)
        metric == IF ~config.SmallerIsBetter THEN floatNegate(m.value) ELSE m.value
        r == promote(s, requestID, metric)
    IN  [state |-> r.state, ops |-> r.ops, err |-> ""]

validationCompleted(s, requestID, metrics) ==
    LET m == Metric(metrics, config.Metric)
        metric == IF ~config.SmallerIsBetter THEN floatNegate(m.value) ELSE m.value
    IN  IF m.err # ""
        THEN [state |-> s, ops |-> << >>, err |-> m.err]
        ELSE LET r == promote(s, requestID, metric)
             IN  [state |-> r.state, ops |-> r.ops, err |-> ""]

trialExitedEarly(s, requestID) ==
    LET s1 == [s EXCEPT !.earlyExitTrials = @ \cup {requestID}]
        r == promote(s1, requestID, ashaExitedMetricValue)
    IN  [state |-> r.state, ops |-> r.ops, err |-> ""]

\* A float64 quotient, kept exact as a fraction with a positive denominator.
\* 1.2 is 6/5, so x / (1.2 * m) is 5x / 6m, and y / m is 6y / 6m.
Fraction(num, den) == [num |-> num, den |-> den]

\* math.Max of two fractions.
fractionMax(a, b) == IF a.num * b.den >= b.num * a.den THEN a ELSE b

\* A faulty variant: progress without the overhead of 20% of maxTrials.
progressWithoutOverhead(s) ==
    LET allTrials == Cardinality(DOMAIN s.trialRungs)
        progress == Fraction(6 * (allTrials - s.rungs[1].outstandingTrials),
                             6 * maxTrials)
    IN  IF allTrials = maxTrials
        THEN fractionMax(Fraction(6 * s.trialsCompleted, 6 * maxTrials), progress)
        ELSE progress

progress(s) ==
    LET allTrials == Cardinality(DOMAIN s.trialRungs)
        progress == Fraction(5 * (allTrials - s.rungs[1].outstandingTrials),
                             6 * maxTrials)
    IN  IF allTrials = maxTrials
        THEN fractionMax(Fraction(6 * s.trialsCompleted, 6 * maxTrials), progress)
        ELSE progress

\* ------------------------------------------------------------- state machine
\* The searcher's fields as one record, as the methods above take them.
State ==
    [rungs |-> rungs, trialRungs |-> trialRungs,
     earlyExitTrials |-> earlyExitTrials, trialsCompleted |-> trialsCompleted]

\* The configurations of Spec. A larger-is-better metric is
\* the smaller-is-better one mirrored, and runs on the trial budgets below the
\* largest.
Configs ==
    {c \in [Divisor : 2..MaxDivisor, NumRungs : 1..MaxRungs,
            TargetTrialSteps : {MaxLengthBound}, MaxTrials : 1..MaxTrialsBound,
            MaxConcurrentTrials : 0..MaxConcurrentBound,
            SmallerIsBetter : BOOLEAN, Metric : {"loss"}] :
        c.SmallerIsBetter \/ c.MaxTrials < MaxTrialsBound}

\* The configurations of SpecLadder: every ladder, its trials run one at
\* a time.
LadderConfigs ==
    [Divisor : 2..MaxDivisor, NumRungs : 1..MaxRungs,
     TargetTrialSteps : 1..MaxLengthBound, MaxTrials : {MaxTrialsBound},
     MaxConcurrentTrials : {1}, SmallerIsBetter : {TRUE}, Metric : {"loss"}]

\* The configurations of SpecParallel: those of Spec with a smaller-is-better
\* metric, and brackets of one more trial whose trials run one at a time, so that
\* a bracket still creates trials after an early-exited trial was promoted.
ParallelConfigs ==
    {c \in Configs : c.SmallerIsBetter} \cup
    [Divisor : 2..MaxDivisor, NumRungs : 1..MaxRungs,
     TargetTrialSteps : {MaxLengthBound}, MaxTrials : {MaxTrialsBound + 1},
     MaxConcurrentTrials : {1}, SmallerIsBetter : {TRUE}, Metric : {"loss"}]

\* The values a validation reports for a metric: two, so that results tie and
\* arrive in either order.
MetricValues == {1, 2}

\* The validation metrics an event may carry: the searcher's metric with a value,
\* or only some other metric.
MetricsWithValue == {[n \in {"loss"} |-> v] : v \in MetricValues}

MetricsInputs == MetricsWithValue \cup {[n \in {"accuracy"} |-> 1]}

\* The validation metrics of SpecNaN: the searcher's metric with a value or NaN.
MetricsOrNaN == MetricsWithValue \cup {[n \in {"loss"} |-> NaN]}

UnknownIDs == (0 - MaxUnknown)..(-1)

InitWith(cfgs) ==
    /\ config \in cfgs
    /\ LET s == newAsyncHalvingSearch(config)
       IN  /\ rungs = s.rungs
           /\ trialRungs = s.trialRungs
           /\ earlyExitTrials = s.earlyExitTrials
           /\ trialsCompleted = s.trialsCompleted
    /\ started = FALSE
    /\ pending = {}
    /\ exited = {}
    /\ lastCall = [kind |-> "new", id |-> 0, hasMetric |-> FALSE, isNaN |-> FALSE]
    /\ lastOps = << >>
    /\ lastErr = ""
    /\ closes = << >>
    /\ unknownSent = {}
    /\ nanReported = {}

Init == InitWith(Configs)

InitLadder == InitWith(LadderConfigs)

InitParallel == InitWith(ParallelConfigs)

\* The ids of the operations of one kind in a batch.
IdsOf(ops, kind) == {ops[i].id : i \in {j \in 1..Len(ops) : ops[j].kind = kind}}

\* How many operations of one kind a batch holds for one trial.
CountOf(ops, kind, id) ==
    Cardinality({i \in 1..Len(ops) : ops[i].kind = kind /\ ops[i].id = id})

\* A call returns: the searcher's new state, the batch, and what the orchestrator
\* now waits for.
Return(kind, id, hasMetric, isNaN, res) ==
    /\ rungs' = res.state.rungs
    /\ trialRungs' = res.state.trialRungs
    /\ earlyExitTrials' = res.state.earlyExitTrials
    /\ trialsCompleted' = res.state.trialsCompleted
    /\ lastCall' = [kind |-> kind, id |-> id, hasMetric |-> hasMetric,
                    isNaN |-> isNaN]
    /\ nanReported' = IF isNaN THEN nanReported \cup {id} ELSE nanReported
    /\ exited' = IF kind = "trialExitedEarly" THEN exited \cup {id} ELSE exited
    /\ lastOps' = res.ops
    /\ lastErr' = res.err
    /\ pending' = IF res.err = ""
                  THEN (pending \ {id}) \cup IdsOf(res.ops, "Validate")
                  ELSE pending
    /\ closes' = [t \in DOMAIN closes \cup IdsOf(res.ops, "Close") |->
                     MapGet(closes, t) + CountOf(res.ops, "Close", t)]
    /\ UNCHANGED config

InitialOperations ==
    /\ ~started
    /\ started' = TRUE
    /\ Return("initialOperations", 0, FALSE, FALSE, initialOperations(State))
    /\ UNCHANGED unknownSent

\* validationCompleted for a trial with an unanswered Validate, its metrics drawn
\* from `inputs`.
ValidationCompletedWith(inputs) ==
    /\ started
    /\ \E requestID \in pending, metrics \in inputs :
           Return("validationCompleted", requestID, config.Metric \in DOMAIN metrics,
                  Metric(metrics, config.Metric).value = NaN,
                  validationCompleted(State, requestID, metrics))
    /\ UNCHANGED <<started, unknownSent>>

ValidationCompleted == ValidationCompletedWith(MetricsInputs)

\* The validationCompleted that answers a Validate: one that carries the metric.
ValidationAnswered == ValidationCompletedWith(MetricsWithValue)

TrialExitedEarly ==
    /\ started
    /\ \E requestID \in pending :
           Return("trialExitedEarly", requestID, FALSE, FALSE,
                  trialExitedEarly(State, requestID))
    /\ UNCHANGED <<started, unknownSent>>

\* An event for an id the searcher never created.
UnknownValidationCompleted ==
    /\ started
    /\ \E requestID \in UnknownIDs \ unknownSent, metrics \in MetricsInputs :
           /\ Return("validationCompleted", requestID,
                     config.Metric \in DOMAIN metrics,
                     Metric(metrics, config.Metric).value = NaN,
                     validationCompleted(State, requestID, metrics))
           /\ unknownSent' = unknownSent \cup {requestID}
    /\ UNCHANGED started

UnknownTrialExitedEarly ==
    /\ started
    /\ \E requestID \in UnknownIDs \ unknownSent :
           /\ Return("trialExitedEarly", requestID, FALSE, FALSE,
                  trialExitedEarly(State, requestID))
           /\ unknownSent' = unknownSent \cup {requestID}
    /\ UNCHANGED started

Next == InitialOperations \/ ValidationCompleted \/ TrialExitedEarly

NextUnknown == Next \/ UnknownValidationCompleted \/ UnknownTrialExitedEarly

\* Every Validate is answered by one validationCompleted that carries the metric
\* or by one trialExitedEarly.
NextAnswered == InitialOperations \/ ValidationAnswered \/ TrialExitedEarly

\* A validationCompleted may report NaN for the searcher's metric.
ValidationCompletedOrNaN == ValidationCompletedWith(MetricsOrNaN)

NextNaN == InitialOperations \/ ValidationCompletedOrNaN \/ TrialExitedEarly

\* Events only for trials with an unanswered Validate.
Spec == Init /\ [][Next]_vars

\* The same, over every ladder.
SpecLadder == InitLadder /\ [][Next]_vars

\* Events for unknown ids as well.
SpecUnknown == Init /\ [][NextUnknown]_vars

\* Every event answers a Validate: no validationCompleted lacks the metric.
SpecAnswered == Init /\ [][NextAnswered]_vars

\* The same, with the longer sequential brackets.
SpecParallel == InitParallel /\ [][Next]_vars

\* Validations that may report NaN.
SpecNaN == Init /\ [][NextNaN]_vars

\* The step of initialOperations, seen from outside.
Seeded == ~started /\ started'

\* The step that answers a pending Validate, seen from outside: a
\* validationCompleted that carries the metric, or a trialExitedEarly, for a trial
\* the orchestrator waits for, returning no error.
Answered ==
    /\ started /\ pending # {}
    /\ lastCall'.kind \in {"validationCompleted", "trialExitedEarly"}
    /\ lastCall'.id \in pending
    /\ lastErr' = ""

\* The fairness the orchestrator provides: initialOperations is called, and a
\* Validate does not stay unanswered forever. This is weak fairness of Seeded and
\* of Answered, written with their enabling conditions (the searcher is not
\* started; a Validate is unanswered) spelled out.
Fairness ==
    /\ []<>started \/ []<><<Seeded>>_vars
    /\ []<>(~(started /\ pending # {})) \/ []<><<Answered>>_vars

SpecFair == Init /\ [][NextAnswered]_vars /\ Fairness

\* ------------------------------------------------------------------- claims
AllTrials == Cardinality(DOMAIN trialRungs)

EventKinds == {"validationCompleted", "trialExitedEarly"}

\* The bracket has created all its trials and none is training.
Quiescent ==
    /\ started
    /\ AllTrials = maxTrials
    /\ \A k \in 1..Len(rungs) : rungs[k].outstandingTrials = 0

\* The positions of a batch that hold an operation of one kind.
Positions(ops, kind) == {i \in 1..Len(ops) : ops[i].kind = kind}

\* C1: for every trial, Close appears at most once in the concatenation of all
\* returned batches.
C1_AtMostOneClose == \A t \in DOMAIN closes : closes[t] <= 1

\* C2: the number of registered trials never exceeds MaxTrials, and a call that
\* starts with MaxTrials registered trials emits no Create.
C2_TrialCap ==
    /\ [](AllTrials <= maxTrials)
    /\ [][AllTrials = maxTrials => Positions(lastOps', "Create") = {}]_vars

\* A call at the cap that neither promoted nor created, with trials still training.
C2_Witness ==
    /\ AllTrials = maxTrials
    /\ lastCall.kind \in EventKinds /\ lastErr = ""
    /\ Positions(lastOps, "Train") = {} /\ Positions(lastOps, "Create") = {}
    /\ pending # {}
    /\ maxTrials > 1

\* C3: no batch returned by or after trialExitedEarly(t) holds a Train or a
\* Validate for t.
C3_NoTrainAfterExit ==
    \A i \in 1..Len(lastOps) :
        lastOps[i].kind \in {"Train", "Validate"} => lastOps[i].id \notin exited

\* Another trial's event promoted a trial that had exited early.
C3_Witness ==
    \E t \in exited :
        /\ lastCall.id # t
        /\ MapGet(trialRungs, t) >= 1
        /\ \E k \in 1..Len(rungs) : \E i \in 1..Len(rungs[k].metrics) :
               /\ rungs[k].metrics[i].requestID = t
               /\ rungs[k].metrics[i].metric = ashaExitedMetricValue
               /\ rungs[k].metrics[i].promoted

\* One new training workload in a batch: one Train directly followed by the
\* Validate of the same trial at the length trained to, and either no Create and
\* the trial is a registered one that did not exit early, now one rung higher, or
\* one Create directly before the Train, of a new trial trained from 0 to the
\* bottom rung's length.
OneWorkload(ops, before, after, gone) ==
    /\ Cardinality(Positions(ops, "Train")) = 1
    /\ Cardinality(Positions(ops, "Validate")) = 1
    /\ Cardinality(Positions(ops, "Create")) <= 1
    /\ \A i \in Positions(ops, "Train") :
          /\ i + 1 \in Positions(ops, "Validate")
          /\ ops[i + 1].id = ops[i].id
          /\ ops[i + 1].to = ops[i].to
          /\ IF Positions(ops, "Create") = {}
             THEN /\ ops[i].id \in DOMAIN before
                  /\ ops[i].id \notin gone
                  /\ after[ops[i].id] = before[ops[i].id] + 1
                  /\ ops[i].from = rungs[before[ops[i].id] + 1].stepsNeeded
                  /\ ops[i].to = rungs[after[ops[i].id] + 1].stepsNeeded
             ELSE /\ i - 1 \in Positions(ops, "Create")
                  /\ ops[i - 1].id = ops[i].id
                  /\ ops[i].id \notin DOMAIN before
                  /\ ops[i].id \in DOMAIN after /\ after[ops[i].id] = 0
                  /\ ops[i].from = 0
                  /\ ops[i].to = rungs[1].stepsNeeded

C5_EventuallyQuiescent == <>[](Quiescent /\ pending = {})

\* The bracket is quiescent after trials were promoted and closed.
C5_Witness ==
    /\ Quiescent /\ pending = {}
    /\ maxTrials >= 2 /\ NumRungs >= 2
    /\ trialsCompleted = maxTrials
    /\ \E t \in DOMAIN trialRungs : trialRungs[t] = NumRungs - 1

ExpectedConcurrency ==
    IF config.MaxConcurrentTrials > 0
    THEN min(config.MaxConcurrentTrials, config.MaxTrials)
    ELSE max(1, min(Pow(config.Divisor, config.NumRungs - 1), config.MaxTrials))

\* C7: initialOperations returns exactly C Creates, each directly followed by the
\* Train from 0 to the bottom rung's length and the Validate at that length of the
\* same trial; afterwards the bottom rung has C outstanding trials and exactly
\* those C trials are registered, at rung 0.
C7_InitialOperations ==
    lastCall.kind = "initialOperations" =>
        LET C == ExpectedConcurrency
            ids == {lastOps[i].id : i \in Positions(lastOps, "Create")}
        IN  /\ Len(lastOps) = 3 * C
            /\ \A j \in 0..(C - 1) :
                  /\ lastOps[3 * j + 1].kind = "Create"
                  /\ lastOps[3 * j + 2] =
                         NewTrain(lastOps[3 * j + 1].id, 0, rungs[1].stepsNeeded)
                  /\ lastOps[3 * j + 3] =
                         NewValidate(lastOps[3 * j + 1].id, rungs[1].stepsNeeded)
            /\ Cardinality(ids) = C
            /\ rungs[1].outstandingTrials = C
            /\ \A k \in 2..Len(rungs) : rungs[k].outstandingTrials = 0
            /\ DOMAIN trialRungs = ids
            /\ \A t \in ids : trialRungs[t] = 0
            /\ lastErr = ""

\* initialOperations with no configured concurrency created more than one trial.
C7_Witness ==
    /\ lastCall.kind = "initialOperations"
    /\ config.MaxConcurrentTrials = 0
    /\ Cardinality(Positions(lastOps, "Create")) >= 2
    /\ Cardinality(Positions(lastOps, "Create")) < Pow(Divisor, NumRungs - 1)

\* The rung lengths follow the formula and end at max_length.
LadderFormula ==
    /\ Len(rungs) = NumRungs
    /\ \A k \in 0..(NumRungs - 1) :
          rungs[k + 1].stepsNeeded =
              max(1, config.TargetTrialSteps \div Pow(Divisor, NumRungs - 1 - k))
    /\ rungs[NumRungs].stepsNeeded = config.TargetTrialSteps

\* The Train operations of promotions (those not starting at 0) in the last batch.
PromotionTrains == {i \in Positions(lastOps, "Train") : lastOps[i].from # 0}

\* C8 as stated: the ladder follows the formula, is strictly increasing and ends
\* at max_length, and every promotion's Train has from < to.
C8_LadderStrictlyIncreasing ==
    /\ LadderFormula
    /\ \A k \in 1..(NumRungs - 1) : rungs[k].stepsNeeded < rungs[k + 1].stepsNeeded
    /\ \A i \in PromotionTrains : lastOps[i].from < lastOps[i].to

\* C8, amended: the ladder follows the formula, is non-decreasing and ends at
\* max_length, and every promotion's Train has from <= to; the ladder is strictly
\* increasing, and from < to, when max_length >= divisor^(num_rungs-1).
C8_LadderNonDecreasing ==
    /\ LadderFormula
    /\ \A k \in 1..(NumRungs - 1) : rungs[k].stepsNeeded <= rungs[k + 1].stepsNeeded
    /\ \A i \in PromotionTrains : lastOps[i].from <= lastOps[i].to
    /\ config.TargetTrialSteps >= Pow(Divisor, NumRungs - 1) =>
          /\ \A k \in 1..(NumRungs - 1) :
                rungs[k].stepsNeeded < rungs[k + 1].stepsNeeded
          /\ \A i \in PromotionTrains : lastOps[i].from < lastOps[i].to

\* A promotion to the top of a strictly increasing ladder of the largest height.
C8_Witness ==
    /\ NumRungs = MaxRungs
    /\ config.TargetTrialSteps >= Pow(Divisor, NumRungs - 1)
    /\ \E i \in PromotionTrains :
          /\ lastOps[i].to = config.TargetTrialSteps
          /\ lastOps[i].from = rungs[NumRungs - 1].stepsNeeded

\* C9: an event for an id the bracket never created fails with UnknownTrial,
\* returns no operations and leaves the searcher's state unchanged.
C9_UnknownTrialRejected ==
    [][lastCall'.id \in UnknownIDs =>
          /\ lastErr' = "UnknownTrial"
          /\ lastOps' = << >>
          /\ UNCHANGED <<rungs, trialRungs, earlyExitTrials, trialsCompleted>>]_vars

\* C10: a validationCompleted whose metrics lack the searcher's metric fails,
\* returns no operations and leaves the searcher's state unchanged; the trial
\* stays outstanding at its rung and its Validate stays unanswered.
C10_MissingMetric ==
    [][(lastCall'.kind = "validationCompleted" /\ ~lastCall'.hasMetric) =>
          /\ lastErr' = "MissingMetric"
          /\ lastOps' = << >>
          /\ UNCHANGED <<rungs, trialRungs, earlyExitTrials, trialsCompleted>>
          /\ lastCall'.id \in pending'
          /\ rungs'[MapGet(trialRungs', lastCall'.id) + 1].outstandingTrials >= 1]_vars

\* A failed validationCompleted for a trial training toward a rung above the
\* bottom one, which is still outstanding there.
C10_Witness ==
    /\ lastCall.kind = "validationCompleted" /\ ~lastCall.hasMetric
    /\ lastErr = "MissingMetric"
    /\ lastCall.id \in pending
    /\ MapGet(trialRungs, lastCall.id) >= 1
    /\ rungs[trialRungs[lastCall.id] + 1].outstandingTrials >= 1

\* Every rung's metrics sequence is non-decreasing in metric, as float64 compares.
RungsSorted ==
    \A k \in 1..Len(rungs) : \A i \in 1..(Len(rungs[k].metrics) - 1) :
        floatLessEq(rungs[k].metrics[i].metric, rungs[k].metrics[i + 1].metric)

\* C11: a validationCompleted whose metric is NaN does what trialExitedEarly does
\* for that trial (the trial is recorded in earlyExitTrials and ranked with
\* ashaExitedMetricValue at its rung, the same state and batch result); no batch
\* from then on holds a Train or Validate for the trial; and every rung's metrics
\* sequence stays sorted.
C11_NaNHandledAsEarlyExit ==
    /\ [][lastCall'.isNaN =>
             LET e == trialExitedEarly(State, lastCall'.id)
             IN  /\ lastCall'.id \in earlyExitTrials'
                 /\ rungs' = e.state.rungs
                 /\ trialRungs' = e.state.trialRungs
                 /\ earlyExitTrials' = e.state.earlyExitTrials
                 /\ trialsCompleted' = e.state.trialsCompleted
                 /\ lastOps' = e.ops]_vars
    /\ [](\A i \in 1..Len(lastOps) :
              lastOps[i].kind \in {"Train", "Validate"} =>
                  lastOps[i].id \notin nanReported)
    /\ []RungsSorted

\* Two fractions are the same number.
SameNumber(a, b) == a.num * b.den = b.num * a.den

\* C12: in every reachable state progress returns a value in [0,1]: it returns
\* (all - pending0) / (1.2 * maxTrials) while all < maxTrials and the larger of
\* that and trialsCompleted / maxTrials when all = maxTrials; 0 <= pending0 <= all
\* and trialsCompleted <= maxTrials hold.
C12_ProgressInUnitInterval ==
    LET all == AllTrials
        pending0 == rungs[1].outstandingTrials
        base == Fraction(5 * (all - pending0), 6 * maxTrials)
        done == Fraction(trialsCompleted, maxTrials)
        p == progress(State)
    IN  /\ 0 <= pending0 /\ pending0 <= all
        /\ trialsCompleted <= maxTrials
        /\ all <= maxTrials
        /\ all < maxTrials => SameNumber(p, base)
        /\ all = maxTrials =>
              SameNumber(p, IF done.num * base.den >= base.num * done.den
                            THEN done ELSE base)
        /\ p.den > 0 /\ 0 <= p.num /\ p.num <= p.den

\* progress returns trialsCompleted / maxTrials, above the base value and below 1,
\* while a trial is still training toward the bottom rung.
C12_Witness ==
    LET p == progress(State)
    IN  /\ AllTrials = maxTrials
        /\ rungs[1].outstandingTrials >= 1
        /\ SameNumber(p, Fraction(trialsCompleted, maxTrials))
        /\ 5 * (AllTrials - rungs[1].outstandingTrials) < 6 * trialsCompleted
        /\ p.num < p.den

\* The number of promoted entries of a metrics sequence.
PromotedCount(ms) == Cardinality({i \in 1..Len(ms) : ms[i].promoted})

\* The window of a metrics sequence: floor(len / divisor).
Window(ms) == Len(ms) \div Divisor

\* The trials with an entry in a metrics sequence.
TrialsIn(ms) == {ms[i].requestID : i \in 1..Len(ms)}

\* C13 as stated: after every call, in every rung, the number of promoted entries
\* equals floor(len(metrics) / divisor).
C13_PromotedCountIsWindow ==
    \A k \in 1..Len(rungs) : PromotedCount(rungs[k].metrics) = Window(rungs[k].metrics)

\* C13, amended: after every call, in every rung, the number of promoted entries
\* is at least floor(len(metrics) / divisor); a call adds at most one promoted
\* entry to a rung; and the number grows while the window does not only when the
\* call inserted a result into one of the window's slots, which is promoted at
\* once.
C13_PromotedCountAtLeastWindow ==
    /\ [](\A k \in 1..Len(rungs) :
              PromotedCount(rungs[k].metrics) >= Window(rungs[k].metrics))
    /\ [][\A k \in 1..Len(rungs) :
              LET before == rungs[k].metrics
                  after == rungs'[k].metrics
              IN  /\ PromotedCount(after) <= PromotedCount(before) + 1
                  /\ PromotedCount(after) >= PromotedCount(before)
                  /\ (PromotedCount(after) > PromotedCount(before)
                         /\ Window(after) = Window(before)) =>
                        \E i \in 1..Window(after) :
                            /\ after[i].requestID \notin TrialsIn(before)
                            /\ after[i].promoted]_vars

\* A rung with more promoted entries than its window: a result arrived that was
\* better than an already promoted one.
C13_Witness ==
    \E k \in 1..Len(rungs) :
        LET ms == rungs[k].metrics
        IN  /\ PromotedCount(ms) > Window(ms)
            /\ \E i \in 1..Len(ms) : \E j \in (i + 1)..Len(ms) :
                   /\ ms[i].promoted /\ ms[j].promoted
                   /\ ms[i].metric < ms[j].metric

\* The entries of `before`, in their order, are those of `after` without its
\* entry i.
KeptAround(before, after, i) ==
    /\ Len(after) = Len(before) + 1
    /\ \A j \in 1..Len(before) :
           after[IF j < i THEN j ELSE j + 1].requestID = before[j].requestID

\* C14: after every call each rung's metrics sequence is non-decreasing in
\* metric; a call places a new entry after all existing entries with metric <=
\* its own and before all larger ones, leaving the others in their order (so
\* equal metrics stay in insertion order); and the entry of a trial that exited
\* early holds the worst score, ashaExitedMetricValue, behind every smaller metric.
C14_SortedStableInsertion ==
    /\ [](\A k \in 1..Len(rungs) : \A i \in 1..(Len(rungs[k].metrics) - 1) :
              floatLessEq(rungs[k].metrics[i].metric, rungs[k].metrics[i + 1].metric))
    /\ [][\A k \in 1..Len(rungs) :
              LET before == rungs[k].metrics
                  after == rungs'[k].metrics
              IN  \A i \in 1..Len(after) :
                      after[i].requestID \notin TrialsIn(before) =>
                          /\ KeptAround(before, after, i)
                          /\ \A j \in 1..(i - 1) :
                                 floatLessEq(after[j].metric, after[i].metric)
                          /\ \A j \in (i + 1)..Len(after) :
                                 floatGreater(after[j].metric, after[i].metric)
                          /\ after[i].requestID \in earlyExitTrials' =>
                                 after[i].metric = ashaExitedMetricValue]_vars

\* The trials with a promoted entry in a metrics sequence.
PromotedIn(ms) == {ms[i].requestID : i \in {j \in 1..Len(ms) : ms[j].promoted}}

\* C15: each insertion into a rung promotes at most one trial. With n entries
\* before it, old = floor(n / divisor), new = floor((n + 1) / divisor) and i the
\* stable insertion index (the number of entries with metric <= the new one), it
\* promotes the inserted trial if i < new; otherwise the entry at slot old if
\* new > old and that entry is not yet promoted; otherwise none. A rung without
\* an insertion promotes nothing. No trial is promoted while fewer than divisor
\* results are recorded, and the insertion that makes the window 1 promotes the
\* trial with the smallest metric so far.
C15_PromotionChoice ==
    [][\A k \in 1..Len(rungs) :
          LET before == rungs[k].metrics
              after == rungs'[k].metrics
              n == Len(before)
              old == n \div Divisor
              new == (n + 1) \div Divisor
              chosen == PromotedIn(after) \ PromotedIn(before)
          IN  /\ TrialsIn(after) = TrialsIn(before) => chosen = {}
              /\ Len(after) < Divisor => PromotedIn(after) = {}
              /\ \A i1 \in 1..Len(after) :
                    after[i1].requestID \notin TrialsIn(before) =>
                       /\ i1 - 1 = Cardinality({j \in 1..n :
                                       floatLessEq(before[j].metric, after[i1].metric)})
                       /\ chosen =
                             IF i1 - 1 < new
                             THEN {after[i1].requestID}
                             ELSE IF new > old
                                     /\ after[old + 1].requestID \notin PromotedIn(before)
                             THEN {after[old + 1].requestID}
                             ELSE {}
                       /\ Len(after) = Divisor =>
                             \E t \in chosen : \A j \in 1..Len(after) :
                                 after[j].requestID = t =>
                                     \A l \in 1..Len(after) :
                                         floatLessEq(after[j].metric, after[l].metric)]_vars

\* The rungs at or below rung index k (of the code) have no outstanding trials.
DrainedUpTo(rs, k) == \A j \in 1..(k + 1) : rs[j].outstandingTrials = 0

\* C16: a Close for a trial that has not completed the top rung is emitted only in
\* a call in which len(trialRungs) = MaxTrials and every rung at or below the
\* trial's rung has no outstanding trials; and an entry is marked closed only
\* then: not while the bracket still creates trials, nor while a rung at or below
\* its own has a trial training toward it.
C16_CloseOnlyWhenDrained ==
    /\ [][\A i \in Positions(lastOps', "Close") :
              LET t == lastOps'[i].id
              IN  ~(t = lastCall'.id /\ MapGet(trialRungs, t) = NumRungs - 1) =>
                      /\ Cardinality(DOMAIN trialRungs') = maxTrials
                      /\ AllTrials = maxTrials
                      /\ DrainedUpTo(rungs', MapGet(trialRungs', t))]_vars
    /\ [](\A k \in 1..Len(rungs) : \A i \in 1..Len(rungs[k].metrics) :
              rungs[k].metrics[i].closed =>
                  /\ AllTrials = maxTrials
                  /\ DrainedUpTo(rungs, k - 1))

\* A call closed an unpromoted trial of a rung above the bottom one, with a rung
\* further up still waiting for a trial.
C16_Witness ==
    /\ NumRungs = 3
    /\ rungs[3].outstandingTrials >= 1
    /\ \E i \in 1..Len(rungs[2].metrics) :
           /\ rungs[2].metrics[i].closed
           /\ rungs[2].metrics[i].requestID \in IdsOf(lastOps, "Close")
           /\ rungs[2].metrics[i].requestID # lastCall.id

\* The trials whose entry in a rung the step marks closed.
NewlyClosed(before, after) ==
    {after[i].requestID : i \in {j \in 1..Len(after) : after[j].closed}}
        \ {before[i].requestID : i \in {j \in 1..Len(before) : before[j].closed}}

\* The step's call carried a trial through the top rung: the trial of the event,
\* or an early-exited trial promoted into the top rung.
TopRungCompleted ==
    \/ MapGet(trialRungs, lastCall'.id) = NumRungs - 1
    \/ \E t \in earlyExitTrials' :
           /\ MapGet(trialRungs', t) = NumRungs - 1
           /\ MapGet(trialRungs, t) < NumRungs - 1

\* C17: when closeOutRungs drains a rung (the call started with MaxTrials trials
\* and the rung and those below have no outstanding trials), every unpromoted
\* entry of the rung is closed afterwards; every entry the call closes was
\* unpromoted and is counted in trialsCompleted once; and the batch holds a Close
\* for it unless the trial exited early, in which case it holds none.
C17_DrainClosesUnpromoted ==
    [][(lastCall'.kind \in EventKinds /\ lastErr' = "") =>
          LET closedNow == UNION {NewlyClosed(rungs[k].metrics, rungs'[k].metrics) :
                                     k \in 1..Len(rungs)}
          IN  /\ \A k \in 1..Len(rungs) :
                    (AllTrials = maxTrials /\ DrainedUpTo(rungs', k - 1)) =>
                        \A i \in 1..Len(rungs'[k].metrics) :
                            rungs'[k].metrics[i].promoted \/ rungs'[k].metrics[i].closed
              /\ \A k \in 1..Len(rungs) : \A i \in 1..Len(rungs'[k].metrics) :
                    rungs'[k].metrics[i].requestID
                            \in NewlyClosed(rungs[k].metrics, rungs'[k].metrics) =>
                        ~rungs'[k].metrics[i].promoted
              /\ trialsCompleted' =
                    trialsCompleted + Cardinality(closedNow)
                        + (IF TopRungCompleted THEN 1 ELSE 0)
              /\ \A t \in closedNow :
                    IF t \in earlyExitTrials'
                    THEN CountOf(lastOps', "Close", t) = 0
                    ELSE CountOf(lastOps', "Close", t) >= 1]_vars

\* C18: in every rung, every entry whose position is below
\* floor(len(metrics) / divisor) is promoted, and these are the best results of
\* the rung: an entry that is not promoted has at least floor(len / divisor)
\* other entries with a metric <= its own (an entry whose metric is not a number
\* is the worst of all).
C18_BestAllPromoted ==
    \A k \in 1..Len(rungs) :
        LET ms == rungs[k].metrics
        IN  /\ \A i \in 1..Window(ms) : ms[i].promoted
            /\ \A i \in 1..Len(ms) :
                   (~ms[i].promoted /\ ms[i].metric # NaN) =>
                       Cardinality({j \in 1..Len(ms) \ {i} :
                                       floatLessEq(ms[j].metric, ms[i].metric)})
                           >= Window(ms)

\* The sum of outstandingTrials over the rungs from k on.
RECURSIVE SumOutstanding(_, _)
SumOutstanding(rs, k) ==
    IF k > Len(rs) THEN 0 ELSE rs[k].outstandingTrials + SumOutstanding(rs, k + 1)

\* C19: with events delivered only for trials with an unanswered Validate, after
\* every call every rung's outstandingTrials is >= 0 and is the number of trials
\* with an unanswered Validate at that rung, and while len(trialRungs) < MaxTrials
\* the sum of outstandingTrials over all rungs is the concurrency C that
\* initialOperations chose.
C19_OutstandingIsPending ==
    started =>
        /\ \A k \in 1..Len(rungs) :
              /\ rungs[k].outstandingTrials >= 0
              /\ rungs[k].outstandingTrials =
                     Cardinality({t \in pending : MapGet(trialRungs, t) = k - 1})
        /\ pending \subseteq DOMAIN trialRungs
        /\ AllTrials < maxTrials => SumOutstanding(rungs, 1) = ExpectedConcurrency

\* The bracket still creates trials after a call that promoted an early-exited
\* trial, recursed for it and created a new trial in its place.
C19_Witness ==
    /\ AllTrials < maxTrials
    /\ SumOutstanding(rungs, 1) = ExpectedConcurrency
    /\ lastCall.kind \in EventKinds /\ lastErr = ""
    /\ \E t \in exited :
          /\ t # lastCall.id
          /\ MapGet(trialRungs, t) >= 1
          /\ Positions(lastOps, "Create") # {}

\* C20: no rung entry is both promoted and closed; once a Close for a trial was
\* returned, no later batch (and no later position of the same batch) holds a
\* Train or Validate for that trial; and an entry that is closed stays closed and
\* is never promoted afterwards.
C20_ClosedNeverPromoted ==
    /\ [](\A k \in 1..Len(rungs) : \A i \in 1..Len(rungs[k].metrics) :
              ~(rungs[k].metrics[i].promoted /\ rungs[k].metrics[i].closed))
    /\ [][/\ \A i \in 1..Len(lastOps') :
                 lastOps'[i].kind \in {"Train", "Validate"} =>
                     /\ MapGet(closes, lastOps'[i].id) = 0
                     /\ \A j \in 1..(i - 1) :
                            ~(lastOps'[j].kind = "Close" /\ lastOps'[j].id = lastOps'[i].id)
          /\ \A k \in 1..Len(rungs) : \A i \in 1..Len(rungs[k].metrics) :
                 rungs[k].metrics[i].closed =>
                     \E j \in 1..Len(rungs'[k].metrics) :
                         /\ rungs'[k].metrics[j].requestID = rungs[k].metrics[i].requestID
                         /\ rungs'[k].metrics[j].closed
                         /\ ~rungs'[k].metrics[j].promoted]_vars

\* A call promoted and trained a trial of a higher rung after the bottom rung was
\* drained and its unpromoted trials were closed, next to promoted ones.
C20_Witness ==
    /\ Positions(lastOps, "Train") # {}
    /\ \E i \in 1..Len(rungs[1].metrics) :
           /\ rungs[1].metrics[i].closed
           /\ MapGet(closes, rungs[1].metrics[i].requestID) >= 1
           /\ rungs[1].metrics[i].requestID \notin IdsOf(lastOps, "Close")
    /\ \E i \in 1..Len(rungs[1].metrics) : rungs[1].metrics[i].promoted

\* The trials that completed the top rung: registered there, with no Validate
\* unanswered.
CompletedTop ==
    {t \in DOMAIN trialRungs : trialRungs[t] = NumRungs - 1 /\ t \notin pending}

\* The trials with a closed entry in some rung.
ClosedUnpromoted ==
    UNION {{rungs[k].metrics[i].requestID :
                i \in {j \in 1..Len(rungs[k].metrics) : rungs[k].metrics[j].closed}} :
           k \in 1..Len(rungs)}

\* C21: every trial is counted in trialsCompleted at most once, on completing the
\* top rung or when closed unpromoted by closeOutRungs (the two never for the
\* same trial), so trialsCompleted <= len(trialRungs); and in the quiescent state
\* every rung entry is promoted or closed, trialsCompleted = MaxTrials, and
\* progress returns 1.
C21_CountedOnce ==
    started =>
        /\ CompletedTop \cap ClosedUnpromoted = {}
        /\ trialsCompleted = Cardinality(CompletedTop \cup ClosedUnpromoted)
        /\ trialsCompleted <= AllTrials
        /\ Quiescent =>
              /\ \A k \in 1..Len(rungs) : \A i \in 1..Len(rungs[k].metrics) :
                     rungs[k].metrics[i].promoted \/ rungs[k].metrics[i].closed
              /\ trialsCompleted = maxTrials
              /\ progress(State).num = progress(State).den

\* A quiescent bracket in which one trial completed the top rung and another was
\* closed unpromoted in a rung below.
C21_Witness ==
    /\ Quiescent
    /\ NumRungs >= 2
    /\ CompletedTop # {} /\ ClosedUnpromoted # {}
    /\ \E t \in CompletedTop : t \in exited

====
